---------------------------- MODULE Spec2Model ----------------------------
(***************************************************************************)
(* A model of richinput (richinput/richinput.py, richinput/terminfo.py):   *)
(* the indexed line buffer, the raw-mode guard, the character reader, the  *)
(* escape-sequence decoder, the virtual cursor and the line editor.        *)
(*                                                                         *)
(* Characters are code points (integers), strings are sequences of code    *)
(* points.  Three specifications share the variables:                      *)
(*   SpecLine  calls the IndexedLine methods directly;                      *)
(*   SpecDec   feeds raw code points to get_rich_char;                      *)
(*   Spec      runs RichLine.read / RichLine.__iter__ on typed keys.        *)
(***************************************************************************)
EXTENDS Integers, Sequences, FiniteSets, TLC

VARIABLES
    iline,        \* IndexedLine: [text, idx]
    lineOps,      \* SpecLine: the last two IndexedLine calls, newest last
    ttyAttrs,     \* termios attributes of standard input
    stdinFlags,   \* file-status flags of standard input
    guards,       \* nonblocking_input frames: saved [attrs, flags], innermost last
    stdin,        \* code points waiting in the tty queue
    stdinEof,     \* the tty hung up: read() returns ''
    gcBuf,        \* get_char: code points read and not yet yielded
    gcPc,         \* get_char generator: "new" | "live" | "closed"
    eofReads,     \* number of times read() returned '' (capped)
    dec,          \* get_rich_char / consume_escape_sequence: [pc, seq]
    pending,      \* the event get_rich_char is yielding: <<>> or <<event>>
    events,       \* every event get_rich_char yielded, in order
    typed,        \* number of keys (Spec) or code points (SpecDec) typed
    fed,          \* SpecDec: every code point typed, in order
    rl,           \* RichLine generator: [pc, mode, prev_text, prev_idx, prompt]
    yielded,      \* the tuple __iter__ yielded last: <<>> or <<tuple>>
    cbArgs,       \* the arguments of the last callback call: <<>> or <<tuple>>
    vterm,        \* VTerm: [x, y, width]
    anchor,       \* the cursor column when the VTerm was constructed
    scr,          \* the terminal's row of cells
    pcol,         \* the terminal's cursor column
    outcome,      \* how the read or the iteration ended: [how, by, text]
    entered,      \* the tty attributes and flags when get_char entered the guard
    ti,           \* Terminfo: [loaded, caps, by_var, by_capname, by_tcap_code, by_escape_code]
    tiCall,       \* SpecTi: the last Terminfo call: <<>> or <<[op, arg, ret, before]>>
    ld,           \* load_terminfo: its inputs, position and local variables
    pw,           \* RichPassword and its reader thread: fields, position, locals
    tm,           \* RichPassword's timer: [armed, pc of on_timer_elapsed]
    replace_event,\* RichPassword.replace_event is set
    stars,        \* number of '*' written to the terminal
    vtCalls       \* SpecVt: the VTerm calls made, oldest first

vars == << iline, lineOps, ttyAttrs, stdinFlags, guards, stdin, stdinEof,
           gcBuf, gcPc, eofReads, dec, pending, events, typed, fed, rl,
           yielded, cbArgs, vterm, anchor, scr, pcol, outcome, entered,
           ti, tiCall, ld, pw, tm, replace_event, stars, vtCalls >>

lineVars == << iline, lineOps >>
ioVars == << ttyAttrs, stdinFlags, guards, stdin, stdinEof, gcBuf, gcPc,
             eofReads, typed, fed >>
decVars == << dec, pending, events >>
editVars == << rl, yielded, cbArgs, vterm, anchor, scr, pcol, outcome,
               entered >>
tiVars == << ti, tiCall >>
pwVars == << pw, tm, replace_event, stars >>
libVars == << tiVars, ld, pwVars, vtCalls >>

---------------------------------------------------------------------------
(* Bounds of the model.                                                    *)

MaxLen == 3          \* SpecLine: longest text
MaxSteps == 3        \* SpecLine: largest step count / longest inserted string
MaxKeys == 3         \* Spec: keys typed during one read
MaxChars == 5        \* SpecDec: code points typed
MaxEofReads == 1     \* reads of '' that are counted
Width == 40          \* terminal width of Spec (no line wraps)

---------------------------------------------------------------------------
(* Code points.                                                            *)

EOT == 4
BS == 8
LF == 10
ESC == 27
DOLLAR == 36
DEL == 127
CSI == 155
LBRACKET == 91
LETTER_O == 79

Min(a, b) == IF a < b THEN a ELSE b
Max(a, b) == IF a > b THEN a ELSE b

(* Python slices text[:i] and text[i:] for i >= 0.                         *)
SliceTo(s, i) == SubSeq(s, 1, Min(Max(i, 0), Len(s)))
SliceFrom(s, i) == SubSeq(s, Min(Max(i, 0), Len(s)) + 1, Len(s))

---------------------------------------------------------------------------
(* IndexedLine (richinput.py:235-272).  Each method is an operator from    *)
(* the line to [line, ret].                                                *)

move_cursor_backward_unclamped(l, steps) ==
    [line |-> [l EXCEPT !.idx = l.idx - steps], ret |-> steps # 0]

move_cursor_backward(l, steps) ==
    LET idx == Max(0, l.idx - steps)
    IN  [line |-> [l EXCEPT !.idx = idx], ret |-> l.idx # idx]

move_cursor_forward_unclamped(l, steps) ==
    [line |-> [l EXCEPT !.idx = l.idx + steps], ret |-> steps # 0]

move_cursor_forward(l, steps) ==
    LET idx == Min(Len(l.text), l.idx + steps)
    IN  [line |-> [l EXCEPT !.idx = idx], ret |-> l.idx # idx]

move_cursor_home(l) ==
    [line |-> [l EXCEPT !.idx = 0], ret |-> l.idx # 0]

move_cursor_end(l) ==
    [line |-> [l EXCEPT !.idx = Len(l.text)], ret |-> l.idx # Len(l.text)]

insert(l, s) ==
    move_cursor_forward(
        [l EXCEPT !.text = SliceTo(l.text, l.idx) \o s \o SliceFrom(l.text, l.idx)],
        Len(s)).line

delete_backward(l) ==
    IF l.idx > 0
    THEN move_cursor_backward(
             [l EXCEPT !.text = SliceTo(l.text, l.idx - 1) \o SliceFrom(l.text, l.idx)],
             1).line
    ELSE l

delete_forward(l) ==
    IF l.idx < Len(l.text)
    THEN [l EXCEPT !.text = SliceTo(l.text, l.idx) \o SliceFrom(l.text, l.idx + 1)]
    ELSE l

---------------------------------------------------------------------------
(* SpecLine: the IndexedLine methods called in any order.                  *)

LineChars == {97, 98}

RECURSIVE StringsUpTo(_, _)
StringsUpTo(chars, n) ==
    IF n = 0 THEN {<< >>}
    ELSE LET shorter == StringsUpTo(chars, n - 1)
         IN  shorter \cup {Append(s, c) : s \in shorter, c \in chars}

Call(op, n, before, res) ==
    [op |-> op, n |-> n, before |-> before, after |-> res.line, ret |-> res.ret]

Remember(c) ==
    lineOps' = IF Len(lineOps) = 0 THEN << c >> ELSE << lineOps[Len(lineOps)], c >>

LineOnly == UNCHANGED << ioVars, decVars, editVars, libVars >>

(* Terminfo.__init__ (terminfo.py:45-56): no capability, empty indexes.     *)
EmptyDict == [k \in {} |-> 0]

Terminfo ==
    [loaded |-> FALSE, caps |-> << >>, by_var |-> EmptyDict,
     by_capname |-> EmptyDict, by_tcap_code |-> EmptyDict,
     by_escape_code |-> EmptyDict]

(* load_terminfo before it is called.  None and an unset environment       *)
(* variable are the empty sequence, a string s is << s >>.                 *)
NotLoading ==
    [pc |-> "new", arg |-> << >>, fallback |-> "", TERM |-> << >>,
     TERMINFO |-> << >>, TERMINFO_DIRS |-> << >>, exists |-> {},
     data |-> [magic_number |-> 0, offsets |-> << >>, table |-> << >>],
     terminal_name |-> << >>, terminfo_locations |-> << >>, i |-> 0,
     path |-> << >>, terminfo_path |-> << >>, idx |-> 0, k |-> 0,
     string |-> << >>, strings |-> << >>, pastEnd |-> 0, error |-> ""]

(* RichPassword.__init__ (richinput.py:451-456); no key event yet.          *)
NoEvent == [kind |-> "", value |-> << >>, capname |-> ""]

RichPassword ==
    [pc |-> "new", clear_text |-> FALSE, timer |-> FALSE, input |-> << >>,
     key_event |-> NoEvent, previous |-> << >>, current |-> << >>,
     prev_idx |-> 0, next_idx |-> 0, result |-> << >>]

InitLib ==
    /\ ti = Terminfo
    /\ tiCall = << >>
    /\ ld = NotLoading
    /\ pw = RichPassword
    /\ tm = [armed |-> FALSE, pc |-> "none"]
    /\ replace_event = TRUE
    /\ stars = 0
    /\ vtCalls = << >>

InitRest ==
    /\ InitLib
    /\ ttyAttrs = {"ECHO", "ICANON", "ISIG"}
    /\ stdinFlags = {"O_RDWR"}
    /\ guards = << >>
    /\ stdin = << >>
    /\ stdinEof = FALSE
    /\ gcBuf = << >>
    /\ gcPc = "new"
    /\ eofReads = 0
    /\ dec = [pc |-> "top", seq |-> << >>]
    /\ pending = << >>
    /\ events = << >>
    /\ typed = 0
    /\ fed = << >>
    /\ rl = [pc |-> "new", mode |-> "none", prev_text |-> << >>, prev_idx |-> 0,
             prompt |-> << >>]
    /\ yielded = << >>
    /\ cbArgs = << >>
    /\ vterm = [x |-> 1, y |-> 1, width |-> Width]
    /\ anchor = 1
    /\ scr = << >>
    /\ pcol = 1
    /\ outcome = [how |-> "none", by |-> "none", text |-> << >>]
    /\ entered = << >>

InitLine ==
    /\ \E t \in StringsUpTo(LineChars, MaxLen - 1) : \E i \in 0..Len(t) :
          iline = [text |-> t, idx |-> i]
    /\ lineOps = << >>
    /\ InitRest

LineInsert ==
    \E s \in StringsUpTo(LineChars, MaxSteps) :
       /\ Len(iline.text) + Len(s) <= MaxLen
       /\ iline' = insert(iline, s)
       /\ Remember(Call("insert", Len(s), iline, [line |-> insert(iline, s), ret |-> TRUE]))
       /\ LineOnly

LineDeleteBackward ==
    /\ iline' = delete_backward(iline)
    /\ Remember(Call("delete_backward", 0, iline,
                     [line |-> delete_backward(iline), ret |-> TRUE]))
    /\ LineOnly

LineDeleteForward ==
    /\ iline' = delete_forward(iline)
    /\ Remember(Call("delete_forward", 0, iline,
                     [line |-> delete_forward(iline), ret |-> TRUE]))
    /\ LineOnly

LineMoveBackward ==
    \E n \in 0..MaxSteps :
       /\ iline' = move_cursor_backward(iline, n).line
       /\ Remember(Call("move_cursor_backward", n, iline, move_cursor_backward(iline, n)))
       /\ LineOnly

LineMoveForward ==
    \E n \in 0..MaxSteps :
       /\ iline' = move_cursor_forward(iline, n).line
       /\ Remember(Call("move_cursor_forward", n, iline, move_cursor_forward(iline, n)))
       /\ LineOnly

LineMoveHome ==
    /\ iline' = move_cursor_home(iline).line
    /\ Remember(Call("move_cursor_home", 0, iline, move_cursor_home(iline)))
    /\ LineOnly

LineMoveEnd ==
    /\ iline' = move_cursor_end(iline).line
    /\ Remember(Call("move_cursor_end", 0, iline, move_cursor_end(iline)))
    /\ LineOnly

NextLine ==
    \/ LineInsert
    \/ LineDeleteBackward
    \/ LineDeleteForward
    \/ LineMoveBackward
    \/ LineMoveForward
    \/ LineMoveHome
    \/ LineMoveEnd

SpecLine == InitLine /\ [][NextLine]_vars

---------------------------------------------------------------------------
(* Claims about IndexedLine, checked under SpecLine.                       *)

(* C1: after any sequence of insert, delete_backward, delete_forward,      *)
(* move_cursor_backward(n), move_cursor_forward(n), move_cursor_home and   *)
(* move_cursor_end (n >= 0) the insertion index satisfies                  *)
(* 0 <= idx <= len(text); delete_backward on an empty buffer leaves the    *)
(* text empty and idx at 0.                                                *)
C1_IndexInRange ==
    /\ 0 <= iline.idx
    /\ iline.idx <= Len(iline.text)
    /\ \A i \in 1..Len(lineOps) :
          (lineOps[i].op = "delete_backward" /\ lineOps[i].before.text = << >>)
             => (lineOps[i].after.text = << >> /\ lineOps[i].after.idx = 0)

C1_Witness ==
    /\ Len(lineOps) = 2
    /\ lineOps[1].op = "move_cursor_backward"
    /\ lineOps[1].n > lineOps[1].before.idx
    /\ lineOps[2].op = "delete_backward"
    /\ lineOps[2].before.text = << >>
    /\ iline = lineOps[2].after

(* A forward move by k followed at once by a backward move by k.           *)
ForwardThenBackward ==
    /\ Len(lineOps) = 2
    /\ lineOps[1].op = "move_cursor_forward"
    /\ lineOps[2].op = "move_cursor_backward"
    /\ lineOps[1].n = lineOps[2].n

ForwardClamped == lineOps[1].before.idx + lineOps[1].n > Len(lineOps[1].before.text)
BackwardClamped == lineOps[2].before.idx - lineOps[2].n < 0
Restored == iline.idx = lineOps[1].before.idx

(* C2 as stated: move_cursor_forward(k) then move_cursor_backward(k)       *)
(* restores idx if and only if neither move was clamped.                   *)
C2_RestoresIffNeitherClamped ==
    ForwardThenBackward => (Restored <=> (~ForwardClamped /\ ~BackwardClamped))

(* C2 amended: move_cursor_forward(k) then move_cursor_backward(k)         *)
(* restores idx if and only if neither move was clamped or the starting    *)
(* idx was 0.                                                              *)
C2_RestoresIffNeitherClampedOrAtHome ==
    ForwardThenBackward =>
        (Restored <=> ((~ForwardClamped /\ ~BackwardClamped) \/ lineOps[1].before.idx = 0))

C2_Witness ==
    /\ ForwardThenBackward
    /\ lineOps[1].before.idx > 0
    /\ ForwardClamped
    /\ ~Restored

---------------------------------------------------------------------------
(* The raw-mode guard nonblocking_input (richinput.py:60-72).  The tty is  *)
(* [attrs, flags, guards]: the termios local flags that are set, the       *)
(* file-status flags that are set, and the saved values of the guards that *)
(* are open.                                                               *)

Tty == [attrs |-> ttyAttrs, flags |-> stdinFlags, guards |-> guards]

SetTty(t) ==
    /\ ttyAttrs' = t.attrs
    /\ stdinFlags' = t.flags
    /\ guards' = t.guards

(* tty.setcbreak clears ECHO and ICANON.                                   *)
setcbreak(attrs) == attrs \ {"ECHO", "ICANON"}

nonblocking_input_enter(t) ==
    [attrs |-> setcbreak(t.attrs),
     flags |-> t.flags \cup {"O_NONBLOCK"},
     guards |-> Append(t.guards, [attrs |-> t.attrs, flags |-> t.flags])]

nonblocking_input_exit_attrs_only(t) ==
    LET old == t.guards[Len(t.guards)]
    IN  [attrs |-> old.attrs,
         flags |-> t.flags,
         guards |-> SubSeq(t.guards, 1, Len(t.guards) - 1)]

nonblocking_input_exit(t) ==
    LET old == t.guards[Len(t.guards)]
    IN  [attrs |-> old.attrs,
         flags |-> old.flags,
         guards |-> SubSeq(t.guards, 1, Len(t.guards) - 1)]

---------------------------------------------------------------------------
(* Terminfo.detect (terminfo.py:59-68, 85-107) on the key capabilities of  *)
(* an xterm description, in canonical order.                               *)

KeyStrings ==
    << [capname |-> "kdch1", value |-> << ESC, LBRACKET, 51, 126 >>],
       [capname |-> "kcud1", value |-> << ESC, LETTER_O, 66 >>],
       [capname |-> "khome", value |-> << ESC, LETTER_O, 72 >>],
       [capname |-> "kcub1", value |-> << ESC, LETTER_O, 68 >>],
       [capname |-> "kcuf1", value |-> << ESC, LETTER_O, 67 >>],
       [capname |-> "kcuu1", value |-> << ESC, LETTER_O, 65 >>],
       [capname |-> "kend",  value |-> << ESC, LETTER_O, 70 >>],
       [capname |-> "kf1",   value |-> << ESC, LETTER_O, 80 >>] >>

(* _reset_index: later entries overwrite earlier ones with the same value. *)
by_escape_code(value) ==
    LET hits == {i \in 1..Len(KeyStrings) : KeyStrings[i].value = value}
    IN  IF hits = {} THEN << >>
        ELSE << KeyStrings[CHOOSE i \in hits : \A j \in hits : j <= i] >>

(* detect: the capability found, or UnknownCapability (capname ''), with   *)
(* its value set to the escape code.                                       *)
detect(escape_code) ==
    LET hit == by_escape_code(escape_code)
    IN  [capname |-> IF hit = << >> THEN "" ELSE hit[1].capname,
         value |-> escape_code]

---------------------------------------------------------------------------
(* The key events (richinput.py:28-58).                                    *)

PrintableChar(c) == [kind |-> "PrintableChar", value |-> << c >>, capname |-> ""]
ControlKey(c) == [kind |-> "ControlKey", value |-> << c >>, capname |-> ""]
EscapeSequence(cap) ==
    [kind |-> "EscapeSequence", value |-> cap.value, capname |-> cap.capname]

(* unicodedata.category(c) starts with 'C' for the C0 and C1 controls and  *)
(* DEL; the other code points of the model are letters, digits, symbols.   *)
is_char_printable_c0_only(c) == ~(c \in 0..31)
is_char_printable(c) == ~(c \in 0..31 \/ c \in 127..159)
is_char_interrupt(value) == value = << EOT >>
is_char_backspace(value) == value \in {<< BS >>, << DEL >>}
is_char_esc(c) == c = ESC
is_char_single_character_csi(c) == c = CSI
starts_escape_sequence(c) == is_char_single_character_csi(c) \/ is_char_esc(c)

(* seq[-1] == 36 compares a one-character string with an integer, which    *)
(* Python evaluates to False for every character.                          *)
PyStrEqInt(ch, n) == FALSE

is_final_byte(c) == (64 <= c /\ c <= 126) \/ PyStrEqInt(c, DOLLAR)

---------------------------------------------------------------------------
(* get_rich_char and consume_escape_sequence (richinput.py:103-198) as a   *)
(* machine fed one code point at a time.  d = [pc, seq]:                   *)
(*   "top"    get_rich_char waits for the next code point (line 123);      *)
(*   "intro"  consume_escape_sequence waits for seq[0] (line 183);         *)
(*   "csi"    it waits for the next byte after '[' (lines 187, 190);       *)
(*   "ss3"    it waits for the byte after 'O' (line 193).                  *)
(* The result is [d, out]: the new state and the events yielded.           *)

Restart == [d |-> [pc |-> "intro", seq |-> << >>], out |-> << >>]

Yield(seq) ==
    [d |-> [pc |-> "top", seq |-> << >>],
     out |-> << EscapeSequence(detect(<< ESC >> \o seq)) >>]

(* Line 183 when the starter is the single-character CSI, then 184-187.    *)
StartCsi == [d |-> [pc |-> "csi", seq |-> << LBRACKET >>], out |-> << >>]

FeedTop_csi_as_esc(c) ==
    IF starts_escape_sequence(c) THEN Restart
    ELSE IF is_char_printable(c)
    THEN [d |-> [pc |-> "top", seq |-> << >>], out |-> << PrintableChar(c) >>]
    ELSE [d |-> [pc |-> "top", seq |-> << >>], out |-> << ControlKey(c) >>]

FeedTop(c) ==
    IF is_char_single_character_csi(c) THEN StartCsi
    ELSE IF is_char_esc(c) THEN Restart
    ELSE IF is_char_printable(c)
    THEN [d |-> [pc |-> "top", seq |-> << >>], out |-> << PrintableChar(c) >>]
    ELSE [d |-> [pc |-> "top", seq |-> << >>], out |-> << ControlKey(c) >>]

(* After StartEscapeSequenceException the starter handed back to           *)
(* consume_escape_sequence is a ControlKey object (lines 58, 141), which   *)
(* never equals u'\x9b': the sequence restarts as after ESC.               *)
FeedIntro(c) ==
    IF starts_escape_sequence(c) THEN Restart
    ELSE IF c = LBRACKET THEN [d |-> [pc |-> "csi", seq |-> << c >>], out |-> << >>]
    ELSE IF c = LETTER_O THEN [d |-> [pc |-> "ss3", seq |-> << c >>], out |-> << >>]
    ELSE Yield(<< c >>)

FeedCsi(seq, c) ==
    IF starts_escape_sequence(c) THEN Restart
    ELSE IF is_final_byte(c) THEN Yield(Append(seq, c))
    ELSE [d |-> [pc |-> "csi", seq |-> Append(seq, c)], out |-> << >>]

FeedSs3(seq, c) ==
    IF starts_escape_sequence(c) THEN Restart
    ELSE Yield(Append(seq, c))

Feed(d, c) ==
    CASE d.pc = "top" -> FeedTop(c)
      [] d.pc = "intro" -> FeedIntro(c)
      [] d.pc = "csi" -> FeedCsi(d.seq, c)
      [] d.pc = "ss3" -> FeedSs3(d.seq, c)

(* The events get_rich_char yields for a stream of code points.            *)
RECURSIVE DecodeFrom(_, _)
DecodeFrom(d, stream) ==
    IF stream = << >> THEN << >>
    ELSE LET r == Feed(d, Head(stream))
         IN  r.out \o DecodeFrom(r.d, Tail(stream))

DecodeAll(stream) == DecodeFrom([pc |-> "top", seq |-> << >>], stream)

---------------------------------------------------------------------------
(* get_char (richinput.py:74-101): the guard is entered and the prompt     *)
(* written when the generator starts; then it waits in select, reads what  *)
(* is there and yields it one code point at a time.                        *)

(* The decoder asks get_char for a code point.                             *)
WantsChar == gcPc = "live" /\ pending = << >> /\ rl.pc \in {"new", "waiting"}

(* select returns, read() returns the code points that are waiting.        *)
ReadInput ==
    /\ WantsChar
    /\ gcBuf = << >>
    /\ stdin # << >>
    /\ gcBuf' = stdin
    /\ stdin' = << >>
    /\ UNCHANGED << libVars, lineVars, ttyAttrs, stdinFlags, guards, stdinEof, gcPc,
                    eofReads, typed, fed, decVars, editVars >>

(* get_char yields the next code point to get_rich_char or to              *)
(* consume_escape_sequence, which runs until it needs another one or       *)
(* yields an event.                                                        *)
DecodeChar ==
    /\ WantsChar
    /\ gcBuf # << >>
    /\ LET r == Feed(dec, Head(gcBuf))
       IN  /\ dec' = r.d
           /\ pending' = r.out
           /\ events' = events \o r.out
    /\ gcBuf' = Tail(gcBuf)
    /\ UNCHANGED << libVars, lineVars, ttyAttrs, stdinFlags, guards, stdin, stdinEof,
                    gcPc, eofReads, typed, fed, editVars >>

---------------------------------------------------------------------------
(* SpecDec: get_rich_char iterated by a plain for loop, the code points    *)
(* typed one at a time.                                                    *)

RawChars == {ESC, CSI, LBRACKET, LETTER_O, DOLLAR, 49, 65, DEL}

InitDec ==
    /\ iline = [text |-> << >>, idx |-> 0]
    /\ lineOps = << >>
    /\ InitRest

(* The first next() of get_rich_char starts get_char.                      *)
DecStart ==
    /\ gcPc = "new"
    /\ gcPc' = "live"
    /\ SetTty(nonblocking_input_enter(Tty))
    /\ entered' = << [attrs |-> ttyAttrs, flags |-> stdinFlags] >>
    /\ UNCHANGED << libVars, lineVars, stdin, stdinEof, gcBuf, eofReads, typed, fed,
                    decVars, rl, yielded, cbArgs, vterm, anchor, scr, pcol,
                    outcome >>

DecType ==
    \E c \in RawChars :
       /\ WantsChar
       /\ gcBuf = << >>
       /\ stdin = << >>
       /\ typed < MaxChars
       /\ typed' = typed + 1
       /\ fed' = Append(fed, c)
       /\ stdin' = << c >>
       /\ UNCHANGED << libVars, lineVars, ttyAttrs, stdinFlags, guards, stdinEof, gcBuf,
                       gcPc, eofReads, decVars, editVars >>

(* The for loop takes the event and asks for the next one.                 *)
DecTakeEvent ==
    /\ pending # << >>
    /\ pending' = << >>
    /\ UNCHANGED << libVars, lineVars, ioVars, dec, events, editVars >>

NextDec ==
    \/ DecStart
    \/ DecType
    \/ ReadInput
    \/ DecodeChar
    \/ DecTakeEvent

SpecDec == InitDec /\ [][NextDec]_vars

---------------------------------------------------------------------------
(* Claims about the decoder, checked under SpecDec.                        *)

(* Every code point typed has been read and decoded.                       *)
Consumed == stdin = << >> /\ gcBuf = << >>

InFinalRange(c) == 64 <= c /\ c <= 126

(* t completes a CSI sequence: parameter bytes, then one byte of           *)
(* 0x40..0x7E, and no introducer.                                          *)
CompletesCsi(t) ==
    /\ t # << >>
    /\ InFinalRange(t[Len(t)])
    /\ \A i \in 1..(Len(t) - 1) : ~InFinalRange(t[i]) /\ t[i] \notin {ESC, CSI}

(* C8: the decoder fed the single-byte CSI followed by t yields the same   *)
(* events as when it is fed ESC '[' followed by t; when t completes a CSI  *)
(* sequence that is one EscapeSequence whose normalized sequence is        *)
(* ESC '[' t.                                                              *)
C8_CsiNormalized ==
    (fed # << >> /\ fed[1] = CSI /\ Consumed) =>
        /\ events = DecodeAll(<< ESC, LBRACKET >> \o Tail(fed))
        /\ CompletesCsi(Tail(fed)) =>
              /\ Len(events) = 1
              /\ events[1].kind = "EscapeSequence"
              /\ events[1].value = << ESC, LBRACKET >> \o Tail(fed)

C8_Witness ==
    /\ fed = << CSI, 49, 65 >>
    /\ Consumed
    /\ Len(events) = 1
    /\ events[1].value = << ESC, LBRACKET, 49, 65 >>

(* A final byte as the specification defines it.                           *)
SpecFinalByte(c) == InFinalRange(c) \/ c = DOLLAR

(* C9: in a CSI sequence the decoder stops collecting at the first byte    *)
(* after the '[' that is in 0x40..0x7E or is '$': it is never still        *)
(* collecting after such a byte, and every CSI EscapeSequence it yields    *)
(* ends at its first such byte.                                            *)
C9_DollarEndsCsi ==
    /\ dec.pc = "csi" => \A i \in 2..Len(dec.seq) : ~SpecFinalByte(dec.seq[i])
    /\ \A n \in 1..Len(events) :
          LET v == events[n].value
          IN  (events[n].kind = "EscapeSequence" /\ Len(v) >= 3 /\ v[2] = LBRACKET)
                 => /\ SpecFinalByte(v[Len(v)])
                    /\ \A i \in 3..(Len(v) - 1) : ~SpecFinalByte(v[i])

---------------------------------------------------------------------------
(* What is written to the terminal: text, and the capabilities cuf1, cub1  *)
(* and clr_eos, carriage return and line feed.                             *)

Chr(c) == [op |-> "chr", c |-> c]
Ctl(name) == [op |-> name, c |-> 0]

RECURSIVE Repeat(_, _)
Repeat(tok, n) == IF n <= 0 THEN << >> ELSE << tok >> \o Repeat(tok, n - 1)

Text(str) == [i \in 1..Len(str) |-> Chr(str[i])]

(* Python's "a or b" on integers, and int(a / float(b)) for b > 0.         *)
PyOr_first(a, b) == a
PyOr(a, b) == IF a # 0 THEN a ELSE b
TruncDiv_floor(a, b) == a \div b
TruncDiv(a, b) == IF a >= 0 THEN a \div b ELSE -((-a) \div b)

---------------------------------------------------------------------------
(* VTerm (richinput.py:274-348): v = [x, y, width]; each method gives      *)
(* [v, out], the new mirror and what it wrote.                             *)

vt_move_cursor_forward(v, steps, update_idx_only) ==
    IF steps = 0 THEN [v |-> v, out |-> << >>]
    ELSE LET same == v.x + steps <= v.width
             nx == IF same THEN v.x + steps
                   ELSE PyOr((v.x + steps) % v.width, v.width)
             down == IF same THEN 0 ELSE TruncDiv(v.x + steps - 1, v.width)
             newline == down # 0 /\ ~update_idx_only
             x == IF newline THEN 1 ELSE v.x
         IN  [v |-> [v EXCEPT !.x = nx, !.y = v.y + down],
              out |-> (IF newline THEN << Ctl("cr") >> \o Repeat(Ctl("lf"), down)
                       ELSE << >>)
                      \o (IF update_idx_only \/ x = nx THEN << >>
                          ELSE IF x < nx THEN Repeat(Ctl("cuf1"), nx - x)
                          ELSE Repeat(Ctl("cub1"), x - nx))]

vt_move_cursor_backward(v, steps, update_idx_only) ==
    IF steps = 0 THEN [v |-> v, out |-> << >>]
    ELSE [v |-> IF steps < v.x THEN [v EXCEPT !.x = v.x - steps]
                ELSE [v EXCEPT !.x = PyOr((v.x - steps) % v.width, v.width),
                               !.y = v.y - 1 + TruncDiv(v.x - steps, v.width)],
          out |-> IF update_idx_only THEN << >> ELSE Repeat(Ctl("cub1"), steps)]

vt_write(v, str) ==
    [v |-> vt_move_cursor_forward(v, Len(str), TRUE).v, out |-> Text(str)]

---------------------------------------------------------------------------
(* update_vterm (richinput.py:405-447), the default redraw: gives          *)
(* [line, v, out].                                                         *)

RECURSIVE commonprefix(_, _)
commonprefix(a, b) ==
    IF a = << >> \/ b = << >> \/ Head(a) # Head(b) THEN << >>
    ELSE << Head(a) >> \o commonprefix(Tail(a), Tail(b))

is_capability_delete(e) == e.capname = "kdch1"
is_capability_home(e) == e.capname = "khome"
is_capability_end(e) == e.capname = "kend"
is_capability_arrow_left(e) == e.capname = "kcub1"
is_capability_arrow_right(e) == e.capname = "kcuf1"

Redraw_no_clear(v, previous, current, prev_idx, next_idx) ==
    LET prefix == commonprefix(previous, current)
        m1 == IF Len(prefix) < prev_idx
              THEN vt_move_cursor_backward(v, prev_idx - Len(prefix), FALSE)
              ELSE IF Len(prefix) > prev_idx
              THEN vt_move_cursor_forward(v, Len(prefix) - prev_idx, FALSE)
              ELSE [v |-> v, out |-> << >>]
        w == vt_write(m1.v, SliceFrom(current, Len(prefix)))
        m2 == vt_move_cursor_backward(w.v, Len(current) - next_idx, FALSE)
    IN  [v |-> m2.v, out |-> m1.out \o w.out \o m2.out]

Redraw(v, previous, current, prev_idx, next_idx) ==
    LET prefix == commonprefix(previous, current)
        m1 == IF Len(prefix) < prev_idx
              THEN vt_move_cursor_backward(v, prev_idx - Len(prefix), FALSE)
              ELSE IF Len(prefix) > prev_idx
              THEN vt_move_cursor_forward(v, Len(prefix) - prev_idx, FALSE)
              ELSE [v |-> v, out |-> << >>]
        w == vt_write(m1.v, SliceFrom(current, Len(prefix)))
        m2 == vt_move_cursor_backward(w.v, Len(current) - next_idx, FALSE)
    IN  [v |-> m2.v, out |-> m1.out \o << Ctl("clr_eos") >> \o w.out \o m2.out]

CursorKey_ignored(e, v, line, current, prev_idx) ==
    [line |-> line, v |-> v, out |-> << >>]

(* Lines 428-444: the cursor keys move the buffer index here, after the    *)
(* callback has been given its arguments.                                  *)
CursorKey(e, v, line, current, prev_idx) ==
    IF is_capability_arrow_left(e)
    THEN LET r == move_cursor_backward(line, 1)
             m == IF r.ret THEN vt_move_cursor_backward(v, 1, FALSE)
                  ELSE [v |-> v, out |-> << >>]
         IN  [line |-> r.line, v |-> m.v, out |-> m.out]
    ELSE IF is_capability_arrow_right(e)
    THEN LET r == move_cursor_forward(line, 1)
             m == IF r.ret THEN vt_move_cursor_forward(v, 1, FALSE)
                  ELSE [v |-> v, out |-> << >>]
         IN  [line |-> r.line, v |-> m.v, out |-> m.out]
    ELSE IF is_capability_home(e)
    THEN LET r == move_cursor_home(line)
             m == IF r.ret THEN vt_move_cursor_backward(v, prev_idx, FALSE)
                  ELSE [v |-> v, out |-> << >>]
         IN  [line |-> r.line, v |-> m.v, out |-> m.out]
    ELSE IF is_capability_end(e)
    THEN LET r == move_cursor_end(line)
             m == IF r.ret
                  THEN vt_move_cursor_forward(v, Len(current) - prev_idx, FALSE)
                  ELSE [v |-> v, out |-> << >>]
         IN  [line |-> r.line, v |-> m.v, out |-> m.out]
    ELSE [line |-> line, v |-> v, out |-> << >>]

update_vterm(e, v, line, previous, current, prev_idx, next_idx) ==
    IF previous # current
    THEN LET r == Redraw(v, previous, current, prev_idx, next_idx)
         IN  [line |-> line, v |-> r.v, out |-> r.out]
    ELSE IF e.kind = "EscapeSequence"
    THEN CursorKey(e, v, line, current, prev_idx)
    ELSE [line |-> line, v |-> v, out |-> << >>]

---------------------------------------------------------------------------
(* The terminal: its cells in row-major order, cols cells to a row, and    *)
(* the position of its cursor among them (the cell at column 1 of the row  *)
(* the VTerm was constructed on is cell 1).  Text overwrites the cell      *)
(* under the cursor and advances it, wrapping at the right margin; cuf1    *)
(* and cub1 move the cursor one cell within its row; clr_eos erases from   *)
(* the cursor to the end; carriage return goes to column 1 and line feed,  *)
(* which the tty sends as CR LF, to column 1 of the next row.  A cell      *)
(* never written holds a blank (32).  The window is as wide as the VTerm   *)
(* last read it to be.                                                     *)

TermCol(t) == ((t.pcol - 1) % t.cols) + 1

TermWrite(t, c) ==
    LET padded == t.scr \o Repeat(32, t.pcol - Len(t.scr))
    IN  [t EXCEPT !.scr = [padded EXCEPT ![t.pcol] = c], !.pcol = t.pcol + 1]

TermApply(t, tok) ==
    CASE tok.op = "chr" -> TermWrite(t, tok.c)
      [] tok.op = "cuf1" ->
           [t EXCEPT !.pcol = IF TermCol(t) < t.cols THEN t.pcol + 1 ELSE t.pcol]
      [] tok.op = "cub1" ->
           [t EXCEPT !.pcol = IF TermCol(t) > 1 THEN t.pcol - 1 ELSE t.pcol]
      [] tok.op = "clr_eos" -> [t EXCEPT !.scr = SliceTo(t.scr, t.pcol - 1)]
      [] tok.op = "cr" -> [t EXCEPT !.pcol = t.pcol - (TermCol(t) - 1)]
      [] tok.op = "lf" -> [t EXCEPT !.pcol = t.pcol - (TermCol(t) - 1) + t.cols]
      [] OTHER -> t

RECURSIVE TermApplyAll(_, _)
TermApplyAll(t, toks) ==
    IF toks = << >> THEN t
    ELSE TermApplyAll(TermApply(t, Head(toks)), Tail(toks))

Term == [scr |-> scr, pcol |-> pcol, cols |-> vterm.width]

SetTerm(t) ==
    /\ scr' = t.scr
    /\ pcol' = t.pcol

---------------------------------------------------------------------------
(* RichLine (richinput.py:350-403).  rl.pc is where the __iter__           *)
(* generator stands: "new", "waiting" for get_rich_char's next event,      *)
(* "yielded" to its consumer, "done".                                      *)

Prompts == {<< >>, << 62 >>}
AnchorCols == {1, 3}

(* The keys of the keyboard, as the code points each sends.                *)
Keys ==
    { << 97 >>, << 98 >>, << DEL >>, << BS >>, << LF >>, << EOT >>,
      << ESC, LBRACKET, 51, 126 >>,
      << ESC, LETTER_O, 68 >>, << ESC, LETTER_O, 67 >>,
      << ESC, LETTER_O, 72 >>, << ESC, LETTER_O, 70 >>,
      << ESC, LETTER_O, 65 >> }

(* read's default eot argument.                                            *)
DefaultEot == << LF >>

(* Python's "sub in string".                                               *)
InStr(sub, str) ==
    \E i \in 0..(Len(str) - Len(sub)) : SubSeq(str, i + 1, i + Len(sub)) = sub

Init ==
    /\ InitLib
    /\ iline = [text |-> << >>, idx |-> 0]
    /\ lineOps = << >>
    /\ ttyAttrs = {"ECHO", "ICANON", "ISIG"}
    /\ stdinFlags = {"O_RDWR"}
    /\ guards = << >>
    /\ stdin = << >>
    /\ stdinEof = FALSE
    /\ gcBuf = << >>
    /\ gcPc = "new"
    /\ eofReads = 0
    /\ dec = [pc |-> "top", seq |-> << >>]
    /\ pending = << >>
    /\ events = << >>
    /\ typed = 0
    /\ fed = << >>
    /\ rl = [pc |-> "new", mode |-> "none", prev_text |-> << >>, prev_idx |-> 0,
             prompt |-> << >>]
    /\ yielded = << >>
    /\ cbArgs = << >>
    /\ anchor \in AnchorCols
    /\ vterm = [x |-> anchor, y |-> 1, width |-> Width]
    /\ scr = Repeat(32, anchor - 1)
    /\ pcol = anchor
    /\ outcome = [how |-> "none", by |-> "none", text |-> << >>]
    /\ entered = << >>

(* read or __iter__ is called, up to the first wait for input (lines      *)
(* 366-388): the snapshot of the buffer, the mirror moved past the prompt, *)
(* get_rich_char and get_char started: the guard entered and the prompt    *)
(* written (lines 75-81).                                                  *)
Start ==
    \E mode \in {"read", "iter"}, prompt \in Prompts :
       /\ rl.pc = "new"
       /\ gcPc = "new"
       /\ rl' = [pc |-> "waiting", mode |-> mode, prev_text |-> iline.text,
                 prev_idx |-> iline.idx, prompt |-> prompt]
       /\ vterm' = vt_move_cursor_forward(vterm, Len(prompt), TRUE).v
       /\ gcPc' = "live"
       /\ entered' = << [attrs |-> ttyAttrs, flags |-> stdinFlags] >>
       /\ SetTty(nonblocking_input_enter(Tty))
       /\ SetTerm(TermApplyAll(Term, Text(prompt)))
       /\ UNCHANGED << libVars, lineVars, stdin, stdinEof, gcBuf, eofReads, typed, fed,
                       decVars, yielded, cbArgs, anchor, outcome >>

(* The generators are finalized: get_char leaves its with block, which     *)
(* restores the tty.                                                       *)
Finish(how, by) ==
    /\ rl' = [rl EXCEPT !.pc = "done"]
    /\ gcPc' = "closed"
    /\ SetTty(nonblocking_input_exit(Tty))
    /\ outcome' = [how |-> how, by |-> by, text |-> iline.text]

(* A key is pressed while the program waits for input.                     *)
KeyPress ==
    \E k \in Keys :
       /\ rl.pc = "waiting"
       /\ WantsChar
       /\ gcBuf = << >>
       /\ stdin = << >>
       /\ ~stdinEof
       /\ typed < MaxKeys
       /\ typed' = typed + 1
       /\ stdin' = k
       /\ UNCHANGED << libVars, lineVars, ttyAttrs, stdinFlags, guards, stdinEof, gcBuf,
                       gcPc, eofReads, fed, decVars, editVars >>

(* The tty hangs up while the program waits for input.                     *)
Hangup ==
    /\ rl.pc = "waiting"
    /\ WantsChar
    /\ gcBuf = << >>
    /\ stdin = << >>
    /\ ~stdinEof
    /\ stdinEof' = TRUE
    /\ UNCHANGED << libVars, lineVars, ttyAttrs, stdinFlags, guards, stdin, gcBuf, gcPc,
                    eofReads, typed, fed, decVars, editVars >>

(* Lines 94-96 at end of file: select returns, read() returns '', the for  *)
(* loop yields nothing and the while loop goes back to select.             *)
ReadEof ==
    /\ WantsChar
    /\ gcBuf = << >>
    /\ stdin = << >>
    /\ stdinEof
    /\ eofReads' = Min(eofReads + 1, MaxEofReads)
    /\ UNCHANGED << libVars, lineVars, ttyAttrs, stdinFlags, guards, stdin, stdinEof,
                    gcBuf, gcPc, typed, fed, decVars, editVars >>

(* Lines 97-99: select is interrupted by a signal (errno 4) and retried.   *)
SelectInterrupted ==
    /\ WantsChar
    /\ gcBuf = << >>
    /\ UNCHANGED vars

(* Lines 100-101: select fails with another error, which propagates        *)
(* through the with block and out of the read.                             *)
SelectFails ==
    /\ rl.pc = "waiting"
    /\ WantsChar
    /\ gcBuf = << >>
    /\ Finish("raised", "decoder")
    /\ UNCHANGED << libVars, lineVars, stdin, stdinEof, gcBuf, eofReads, typed, fed,
                    decVars, yielded, cbArgs, vterm, anchor, scr, pcol,
                    entered >>

(* Lines 388-398: __iter__ receives an event, edits the buffer and yields; *)
(* EOT raises StopIteration inside the generator, which ends it on an      *)
(* interpreter without PEP 479 and becomes a RuntimeError on one with it.  *)
IterStep ==
    /\ rl.pc = "waiting"
    /\ pending # << >>
    /\ pending' = << >>
    /\ LET e == pending[1]
       IN  IF e.kind = "PrintableChar"
           THEN /\ iline' = insert(iline, e.value)
                /\ rl' = [rl EXCEPT !.pc = "yielded"]
                /\ yielded' = << [event |-> e, prev_text |-> rl.prev_text,
                                  text |-> iline'.text, prev_idx |-> rl.prev_idx,
                                  idx |-> iline'.idx] >>
                /\ UNCHANGED << ttyAttrs, stdinFlags, guards, gcPc, outcome >>
           ELSE IF is_char_backspace(e.value)
           THEN /\ iline' = delete_backward(iline)
                /\ rl' = [rl EXCEPT !.pc = "yielded"]
                /\ yielded' = << [event |-> e, prev_text |-> rl.prev_text,
                                  text |-> iline'.text, prev_idx |-> rl.prev_idx,
                                  idx |-> iline'.idx] >>
                /\ UNCHANGED << ttyAttrs, stdinFlags, guards, gcPc, outcome >>
           ELSE IF e.kind = "EscapeSequence" /\ is_capability_delete(e)
           THEN /\ iline' = delete_forward(iline)
                /\ rl' = [rl EXCEPT !.pc = "yielded"]
                /\ yielded' = << [event |-> e, prev_text |-> rl.prev_text,
                                  text |-> iline'.text, prev_idx |-> rl.prev_idx,
                                  idx |-> iline'.idx] >>
                /\ UNCHANGED << ttyAttrs, stdinFlags, guards, gcPc, outcome >>
           ELSE IF is_char_interrupt(e.value)
           THEN /\ iline' = iline
                /\ yielded' = yielded
                /\ \E pep479 \in BOOLEAN :
                      IF pep479 THEN Finish("raised", "eot")
                      ELSE Finish(IF rl.mode = "read" THEN "returned" ELSE "exhausted",
                                  "eot")
           ELSE /\ iline' = iline
                /\ rl' = [rl EXCEPT !.pc = "yielded"]
                /\ yielded' = << [event |-> e, prev_text |-> rl.prev_text,
                                  text |-> iline.text, prev_idx |-> rl.prev_idx,
                                  idx |-> iline.idx] >>
                /\ UNCHANGED << ttyAttrs, stdinFlags, guards, gcPc, outcome >>
    /\ UNCHANGED << libVars, lineOps, stdin, stdinEof, gcBuf, eofReads, typed, fed, dec,
                    events, cbArgs, vterm, anchor, scr, pcol, entered >>

(* Lines 367-371: read tests the yielded event against eot and breaks;     *)
(* the abandoned generators are finalized.                                 *)
ReadBreak ==
    /\ rl.pc = "yielded"
    /\ rl.mode = "read"
    /\ InStr(yielded[1].event.value, DefaultEot)
    /\ Finish("returned", "terminator")
    /\ UNCHANGED << libVars, lineVars, stdin, stdinEof, gcBuf, eofReads, typed, fed,
                    decVars, yielded, cbArgs, vterm, anchor, scr, pcol,
                    entered >>

(* The consumer of the iterator drops it.                                  *)
IterAbandon ==
    /\ rl.pc = "yielded"
    /\ rl.mode = "iter"
    /\ Finish("abandoned", "consumer")
    /\ UNCHANGED << libVars, lineVars, stdin, stdinEof, gcBuf, eofReads, typed, fed,
                    decVars, yielded, cbArgs, vterm, anchor, scr, pcol,
                    entered >>

(* The generator is resumed.                                               *)
Resumed ==
    /\ rl.pc = "yielded"
    /\ rl.mode = "read" => ~InStr(yielded[1].event.value, DefaultEot)

(* Lines 400-403: the callback, by default update_vterm, is called with    *)
(* the event, the texts and the indexes; then the snapshot is renewed.     *)
Callback ==
    /\ Resumed
    /\ LET e == yielded[1].event
           u == update_vterm(e, vterm, iline, rl.prev_text, iline.text,
                             rl.prev_idx, iline.idx)
       IN  /\ cbArgs' = << [event |-> e, prev_text |-> rl.prev_text,
                            text |-> iline.text, prev_idx |-> rl.prev_idx,
                            idx |-> iline.idx] >>
           /\ iline' = u.line
           /\ vterm' = u.v
           /\ SetTerm(TermApplyAll(Term, u.out))
           /\ rl' = [rl EXCEPT !.pc = "waiting", !.prev_text = u.line.text,
                               !.prev_idx = u.line.idx]
    /\ UNCHANGED << libVars, lineOps, ioVars, decVars, yielded, anchor, outcome,
                    entered >>

(* The callback raises; the error leaves __iter__ and the read.            *)
CallbackRaises ==
    /\ Resumed
    /\ cbArgs' = << [event |-> yielded[1].event, prev_text |-> rl.prev_text,
                     text |-> iline.text, prev_idx |-> rl.prev_idx,
                     idx |-> iline.idx] >>
    /\ Finish("raised", "callback")
    /\ UNCHANGED << libVars, lineVars, stdin, stdinEof, gcBuf, eofReads, typed, fed,
                    decVars, yielded, vterm, anchor, scr, pcol, entered >>

Next ==
    \/ Start
    \/ KeyPress
    \/ Hangup
    \/ ReadInput
    \/ ReadEof
    \/ SelectInterrupted
    \/ SelectFails
    \/ DecodeChar
    \/ IterStep
    \/ ReadBreak
    \/ IterAbandon
    \/ Callback
    \/ CallbackRaises

Spec == Init /\ [][Next]_vars

---------------------------------------------------------------------------
(* Claims about RichLine, checked under Spec.                              *)

(* The per-event table of the specification, on a line [text, idx].        *)
SpecApply(l, e) ==
    LET n == Len(l.text)
    IN  IF e.kind = "PrintableChar"
        THEN [text |-> SubSeq(l.text, 1, l.idx) \o e.value \o SubSeq(l.text, l.idx + 1, n),
              idx |-> l.idx + Len(e.value)]
        ELSE IF e.kind = "ControlKey" /\ e.value \in {<< BS >>, << DEL >>}
        THEN IF l.idx > 0
             THEN [text |-> SubSeq(l.text, 1, l.idx - 1) \o SubSeq(l.text, l.idx + 1, n),
                   idx |-> l.idx - 1]
             ELSE l
        ELSE IF e.kind = "EscapeSequence" /\ e.capname = "kdch1"
        THEN IF l.idx < n
             THEN [l EXCEPT !.text = SubSeq(l.text, 1, l.idx) \o SubSeq(l.text, l.idx + 2, n)]
             ELSE l
        ELSE IF e.kind = "EscapeSequence" /\ e.capname = "kcub1"
        THEN [l EXCEPT !.idx = IF l.idx > 0 THEN l.idx - 1 ELSE 0]
        ELSE IF e.kind = "EscapeSequence" /\ e.capname = "kcuf1"
        THEN [l EXCEPT !.idx = IF l.idx < n THEN l.idx + 1 ELSE n]
        ELSE IF e.kind = "EscapeSequence" /\ e.capname = "khome"
        THEN [l EXCEPT !.idx = 0]
        ELSE IF e.kind = "EscapeSequence" /\ e.capname = "kend"
        THEN [l EXCEPT !.idx = n]
        ELSE l

RECURSIVE SpecFoldFrom(_, _)
SpecFoldFrom(l, es) ==
    IF es = << >> THEN l ELSE SpecFoldFrom(SpecApply(l, Head(es)), Tail(es))

SpecFold(es) == SpecFoldFrom([text |-> << >>, idx |-> 0], es)

Visible == SubSeq(scr, anchor, Len(scr))

(* The prompt and the text fit on the row, the cursor included.            *)
NoWrap == anchor + Len(rl.prompt) + Len(iline.text) <= vterm.width

(* C4: on a line that does not wrap, after RichLine has handled an event   *)
(* with the default redraw the visible text is prompt + curr_text.         *)
C4_VisibleIsPromptAndText ==
    (rl.pc = "waiting" /\ cbArgs # << >> /\ NoWrap) =>
        Visible = rl.prompt \o iline.text

C4_Witness ==
    /\ rl.pc = "waiting"
    /\ rl.prompt # << >>
    /\ anchor > 1
    /\ Len(events) = 3
    /\ events[2].capname = "kcub1"
    /\ iline = [text |-> << 98, 97 >>, idx |-> 1]
    /\ Visible = rl.prompt \o iline.text

(* C5: however a read or an iteration that entered the raw-mode guard is   *)
(* left (terminator, EOT, an error of the decoder or of the callback, the  *)
(* iterator dropped), the terminal attributes and the file-status flags    *)
(* are those the guard found on entry, and no guard is left open.          *)
C5_GuardRestores ==
    outcome.how # "none" =>
        /\ guards = << >>
        /\ ttyAttrs = entered[1].attrs
        /\ stdinFlags = entered[1].flags

C5_Witness ==
    /\ outcome.how = "raised"
    /\ outcome.by = "callback"
    /\ guards = << >>
    /\ "ICANON" \in ttyAttrs
    /\ "O_NONBLOCK" \notin stdinFlags

(* The event get_rich_char yielded last has been received by __iter__.     *)
LastEventTaken == events # << >> /\ pending = << >>

(* C6: when the decoder delivers ControlKey(0x04) during read, the read    *)
(* ends without error and returns the text as it was before the EOT, with  *)
(* no buffer change and no callback for the EOT event.                     *)
C6_EotReturnsText ==
    (rl.mode = "read" /\ LastEventTaken /\ events[Len(events)] = ControlKey(EOT)) =>
        /\ outcome.how = "returned"
        /\ outcome.text = rl.prev_text
        /\ iline.text = rl.prev_text
        /\ cbArgs # << >> => cbArgs[1].event # ControlKey(EOT)

(* C7: the (prev_idx, curr_idx) pair that the iterator yields and that the *)
(* callback receives is the index before and after the event's buffer      *)
(* action; for kcub1 with prev_idx > 0 curr_idx = prev_idx - 1, for kcuf1  *)
(* with prev_idx < len(text) curr_idx = prev_idx + 1.                      *)
C7_IndexPairIsBeforeAndAfter ==
    \A t \in {yielded[i] : i \in 1..Len(yielded)} \cup {cbArgs[i] : i \in 1..Len(cbArgs)} :
       t.idx = SpecApply([text |-> t.prev_text, idx |-> t.prev_idx], t.event).idx

(* C10: once read() on standard input has returned end-of-file, the event  *)
(* stream has ended: get_char is finished and the read is over.  (The      *)
(* other half, a select interrupted by a signal is retried, is             *)
(* SelectInterrupted, which changes nothing.)                              *)
C10_EofEndsStream ==
    eofReads > 0 => (gcPc = "closed" /\ rl.pc = "done")


---------------------------------------------------------------------------
(* Terminfo (terminfo.py:44-107): the capabilities of a loaded description *)
(* and its four indexes.  A capability is [cls, variable, capname,         *)
(* tcap_code, value]; an index maps a key to the position of a capability  *)
(* in caps, which lists the booleans, the numbers and the strings in that  *)
(* order, as itertools.chain does at line 60.                              *)

MaxCaps == 3         \* SpecTi: capabilities of the description

Variables ==
    << "auto_left_margin", "key_up", "key_down", "key_left", "key_right" >>
CapNames == {"kcuu1", "kcud1", "key_up"}
TcapCodes == {"", "ku"}
EscValues == {<< >>, << ESC, LBRACKET, 65 >>, << ESC, LETTER_O, 65 >>}

Capability(cls, variable, capname, tcap_code, value) ==
    [cls |-> cls, variable |-> variable, capname |-> capname,
     tcap_code |-> tcap_code, value |-> value]

(* d[k] = v of a Python dict.                                              *)
Put(d, k, v) == [x \in (DOMAIN d) \cup {k} |-> IF x = k THEN v ELSE d[x]]

(* _reset_index, lines 60-65: every capability, by its three names.        *)
RECURSIVE reset_names_from(_, _)
reset_names_from(t, i) ==
    IF i > Len(t.caps) THEN t
    ELSE LET c == t.caps[i]
         IN  reset_names_from(
                 [t EXCEPT !.by_var = Put(@, c.variable, i),
                           !.by_capname = Put(@, c.capname, i),
                           !.by_tcap_code = Put(@, c.tcap_code, i)],
                 i + 1)

(* _reset_index, lines 67-68: every string capability, by its value.       *)
RECURSIVE reset_escapes_from(_, _)
reset_escapes_from(t, i) ==
    IF i > Len(t.caps) THEN t
    ELSE LET c == t.caps[i]
         IN  reset_escapes_from(
                 IF c.cls = "string"
                 THEN [t EXCEPT !.by_escape_code = Put(@, c.value, i)]
                 ELSE t,
                 i + 1)

RECURSIVE reset_escapes_first_wins_from(_, _)
reset_escapes_first_wins_from(t, i) ==
    IF i > Len(t.caps) THEN t
    ELSE LET c == t.caps[i]
         IN  reset_escapes_first_wins_from(
                 IF c.cls = "string" /\ c.value \notin DOMAIN t.by_escape_code
                 THEN [t EXCEPT !.by_escape_code = Put(@, c.value, i)]
                 ELSE t,
                 i + 1)

reset_index_first_wins(t) ==
    reset_escapes_first_wins_from(reset_names_from(t, 1), 1)

reset_index(t) == reset_escapes_from(reset_names_from(t, 1), 1)

get_variable_first(t, name) ==
    IF name \in DOMAIN t.by_var
    THEN [raised |-> FALSE, cap |-> t.by_var[name]]
    ELSE IF name \in DOMAIN t.by_capname
    THEN [raised |-> FALSE, cap |-> t.by_capname[name]]
    ELSE IF name \in DOMAIN t.by_tcap_code
    THEN [raised |-> FALSE, cap |-> t.by_tcap_code[name]]
    ELSE [raised |-> TRUE, cap |-> 0]

(* get, lines 79-83: a capability object is always true, so the first      *)
(* index that has the name answers; TerminfoError when none has.           *)
get(t, name) ==
    IF name \in DOMAIN t.by_capname
    THEN [raised |-> FALSE, cap |-> t.by_capname[name]]
    ELSE IF name \in DOMAIN t.by_var
    THEN [raised |-> FALSE, cap |-> t.by_var[name]]
    ELSE IF name \in DOMAIN t.by_tcap_code
    THEN [raised |-> FALSE, cap |-> t.by_tcap_code[name]]
    ELSE [raised |-> TRUE, cap |-> 0]

(* detect, lines 97-107: the indexed capability (cap is its position) or a *)
(* new UnknownCapability (cap 0, variable 'unknown'); its value is set to  *)
(* the escape code, in place when the capability is one of the table.      *)
detect_in(t, escape_code) ==
    IF escape_code \in DOMAIN t.by_escape_code
    THEN LET i == t.by_escape_code[escape_code]
         IN  [t |-> [t EXCEPT !.caps[i].value = escape_code],
              cap |-> i, variable |-> t.caps[i].variable,
              capname |-> t.caps[i].capname, value |-> escape_code]
    ELSE [t |-> t, cap |-> 0, variable |-> "unknown", capname |-> "",
          value |-> escape_code]

---------------------------------------------------------------------------
(* SpecTi: a description is loaded (its capabilities are the input), then  *)
(* get and detect are called with any argument.                            *)

TiOnly == UNCHANGED << lineVars, ioVars, decVars, editVars, ld, pwVars, vtCalls >>

StringCaps(n) ==
    [1..n -> [capname : CapNames, tcap_code : TcapCodes, value : EscValues]]

InitTi ==
    /\ iline = [text |-> << >>, idx |-> 0]
    /\ lineOps = << >>
    /\ InitRest

(* load_terminfo, lines 196-230: one boolean or number capability, then    *)
(* the string capabilities, each paired with its canonical entry.          *)
TiLoad ==
    /\ ~ti.loaded
    /\ \E first \in [cls : {"boolean", "number"}, capname : CapNames,
                     tcap_code : TcapCodes] :
       \E n \in 1..(MaxCaps - 1) : \E ss \in StringCaps(n) :
          LET caps == << Capability(first.cls, Variables[1], first.capname,
                                    first.tcap_code, << >>) >>
                      \o [i \in 1..n |->
                            Capability("string", Variables[i + 1],
                                       ss[i].capname, ss[i].tcap_code,
                                       ss[i].value)]
          IN  ti' = reset_index([Terminfo EXCEPT !.caps = caps,
                                                 !.loaded = TRUE])
    /\ tiCall' = << >>
    /\ TiOnly

TiGet ==
    /\ ti.loaded
    /\ \E name \in CapNames \cup TcapCodes \cup {"key_down", "nosuch"} :
          tiCall' = << [op |-> "get", arg |-> << name >>,
                        ret |-> get(ti, name), before |-> ti] >>
    /\ UNCHANGED ti
    /\ TiOnly

TiDetect ==
    /\ ti.loaded
    /\ \E code \in EscValues \cup {<< ESC, LBRACKET, 66 >>} :
          LET r == detect_in(ti, code)
          IN  /\ ti' = r.t
              /\ tiCall' = << [op |-> "detect", arg |-> code,
                               ret |-> [cap |-> r.cap, variable |-> r.variable,
                                        value |-> r.value],
                               before |-> ti] >>
    /\ TiOnly

NextTi == TiLoad \/ TiGet \/ TiDetect

SpecTi == InitTi /\ [][NextTi]_vars

StringPositions == {i \in 1..Len(ti.caps) : ti.caps[i].cls = "string"}

LastWithValue(v) ==
    CHOOSE i \in StringPositions :
        /\ ti.caps[i].value = v
        /\ \A j \in StringPositions : ti.caps[j].value = v => j <= i

(* C11 as stated: for every string capability c with a non-empty value,    *)
(* detect(c.value).variable = c.variable, also when capabilities share a   *)
(* value.                                                                  *)
C11_DetectFindsEveryCapability ==
    \A i \in StringPositions :
        ti.caps[i].value # << >> =>
            detect_in(ti, ti.caps[i].value).variable = ti.caps[i].variable

(* C11 amended: detect(c.value) is the last string capability, in          *)
(* canonical order, whose value is c.value; its variable is c.variable     *)
(* exactly when no later string capability has the same value.             *)
C11_DetectFindsLastWithValue ==
    \A i \in StringPositions :
        ti.caps[i].value # << >> =>
            LET r == detect_in(ti, ti.caps[i].value)
            IN  /\ r.cap = LastWithValue(ti.caps[i].value)
                /\ r.value = ti.caps[i].value
                /\ (r.variable = ti.caps[i].variable) <=>
                      (\A j \in StringPositions :
                           j > i => ti.caps[j].value # ti.caps[i].value)

C11_Witness ==
    /\ ti.loaded
    /\ Len(ti.caps) = 3
    /\ ti.caps[2].value = << ESC, LBRACKET, 65 >>
    /\ ti.caps[3].value = << ESC, LBRACKET, 65 >>
    /\ tiCall # << >>
    /\ tiCall[1].op = "detect"
    /\ tiCall[1].arg = << ESC, LBRACKET, 65 >>
    /\ tiCall[1].ret.variable = "key_down"

(* C12: after load the escape-value index has a key for a string exactly   *)
(* when it is the non-empty value of a string capability, and detect of    *)
(* any other sequence returns the unknown sentinel with that value.        *)
C12_IndexCoversNonEmptyValues ==
    ti.loaded =>
        LET values == {ti.caps[i].value : i \in StringPositions} \ {<< >>}
        IN  /\ DOMAIN ti.by_escape_code = values
            /\ \A code \in (EscValues \cup {<< ESC, LBRACKET, 66 >>}) \ values :
                  /\ detect_in(ti, code).variable = "unknown"
                  /\ detect_in(ti, code).value = code

---------------------------------------------------------------------------
(* load_terminfo (terminfo.py:116-232), one action per step of the         *)
(* function.  A path is [dir, name]; a file is its magic number, its       *)
(* string offsets and its string table, which runs to the end of the file. *)

MaxPastEnd == 2      \* SpecLoad: reads at or after the end of the file

MAGIC == 282
ABSENT == -1
NUL == 0

HomeTerminfo == "~/.terminfo"
UsrShareTerminfo == "/usr/share/terminfo"

DefaultLocations ==
    << HomeTerminfo, "/etc/terminfo", "/usr/local/ncurses/share/terminfo",
       "/lib/terminfo", UsrShareTerminfo >>

(* list(OrderedDict.fromkeys(l)): the first occurrence of each is kept.    *)
RECURSIVE Dedupe(_, _)
Dedupe(l, seen) ==
    IF l = << >> THEN << >>
    ELSE IF Head(l) \in seen THEN Dedupe(Tail(l), seen)
    ELSE << Head(l) >> \o Dedupe(Tail(l), seen \cup {Head(l)})

(* Lines 138-141: an empty component of TERMINFO_DIRS is the system        *)
(* directory.                                                              *)
DirsOf(components) ==
    [i \in 1..Len(components) |->
        IF components[i] = "" THEN UsrShareTerminfo ELSE components[i]]

(* Lines 129-152.  An empty environment value is false, like an unset one. *)
Locations(l) ==
    IF l.TERMINFO # << >> /\ l.TERMINFO[1] # ""
    THEN << l.TERMINFO[1] >>
    ELSE Dedupe((IF l.TERMINFO_DIRS # << >> /\ l.TERMINFO_DIRS[1] # << "" >>
                 THEN DirsOf(l.TERMINFO_DIRS[1]) ELSE << >>)
                \o DefaultLocations, {})

(* not path, for path = os.path.join(dirpath, terminal_name[0],            *)
(* terminal_name): the joined path is empty only if every part is.         *)
PyNotPath(path) == path[1].dir = "" /\ path[1].name = ""

LoadFiles ==
    { [magic_number |-> mg, offsets |-> f.offsets, table |-> f.table] :
        mg \in {MAGIC, 1},
        f \in { [offsets |-> << 0, ABSENT >>, table |-> << 65, NUL >>],
                [offsets |-> << 0, 2 >>, table |-> << 65, NUL, 66, NUL >>],
                [offsets |-> << 0 >>, table |-> << 65 >>],
                [offsets |-> << 3 >>, table |-> << 65, NUL >>] } }

LoadOnly == UNCHANGED << lineVars, ioVars, decVars, editVars, tiVars, pwVars, vtCalls >>

InitLoad ==
    /\ iline = [text |-> << >>, idx |-> 0]
    /\ lineOps = << >>
    /\ InitRest

(* The call: its arguments, the environment and the file system.           *)
LoadCall ==
    /\ ld.pc = "new"
    /\ \E arg \in {<< >>, << "xterm" >>} : \E fallback \in {"", "vt100"} :
       \E term \in {<< >>, << "" >>, << "vt220" >>} :
       \E terminfo \in {<< >>, << "/t" >>} :
       \E dirs \in {<< >>, << << "/a", "" >> >>,
                    << << UsrShareTerminfo, "/a" >> >>} :
       \E exists \in {{}, {"/a"}, {"/t", UsrShareTerminfo},
                      {"/a", UsrShareTerminfo}} :
       \E data \in LoadFiles :
          ld' = [ld EXCEPT !.pc = "name", !.arg = arg, !.fallback = fallback,
                           !.TERM = term, !.TERMINFO = terminfo,
                           !.TERMINFO_DIRS = dirs, !.exists = exists,
                           !.data = data, !.terminal_name = arg]
    /\ LoadOnly

(* Lines 122-127.                                                          *)
LoadResolveName ==
    /\ ld.pc = "name"
    /\ LET getenv == ld.TERM
       IN  ld' = IF getenv = << >> \/ getenv[1] = ""
                 THEN IF ld.fallback = ""
                      THEN [ld EXCEPT !.pc = "raised", !.terminal_name = getenv,
                                      !.error = "TerminfoError: TERM unset"]
                      ELSE [ld EXCEPT !.pc = "locations",
                                      !.terminal_name = << ld.fallback >>]
                 ELSE [ld EXCEPT !.pc = "locations", !.terminal_name = getenv]
    /\ LoadOnly

(* Lines 129-154.                                                          *)
LoadLocations ==
    /\ ld.pc = "locations"
    /\ ld' = [ld EXCEPT !.pc = "probe", !.terminfo_locations = Locations(ld),
                        !.i = 1, !.terminfo_path = << >>]
    /\ LoadOnly

(* Lines 155-159: one turn of the loop over the directories.               *)
LoadProbe ==
    /\ ld.pc = "probe"
    /\ ld.i <= Len(ld.terminfo_locations)
    /\ LET dirpath == ld.terminfo_locations[ld.i]
           path == << [dir |-> dirpath, name |-> ld.terminal_name[1]] >>
       IN  ld' = IF dirpath \in ld.exists
                 THEN [ld EXCEPT !.path = path, !.terminfo_path = path,
                                 !.pc = "check"]
                 ELSE [ld EXCEPT !.path = path, !.i = @ + 1,
                                 !.pc = IF ld.i = Len(ld.terminfo_locations)
                                        THEN "check" ELSE "probe"]
    /\ LoadOnly

(* Lines 161-162: the test is on path, the last path probed.               *)
LoadCheckFound ==
    /\ ld.pc = "check"
    /\ ld' = IF PyNotPath(ld.path)
             THEN [ld EXCEPT !.pc = "raised",
                             !.error = "TerminfoError: not found"]
             ELSE [ld EXCEPT !.pc = "open"]
    /\ LoadOnly

(* Line 166: open(None, 'rb') is a TypeError.                              *)
LoadOpen ==
    /\ ld.pc = "open"
    /\ ld' = IF ld.terminfo_path = << >>
             THEN [ld EXCEPT !.pc = "raised", !.error = "TypeError"]
             ELSE [ld EXCEPT !.pc = "header"]
    /\ LoadOnly

(* Lines 169-178 and 210-212.                                              *)
LoadHeader ==
    /\ ld.pc = "header"
    /\ ld' = IF ld.data.magic_number # MAGIC
             THEN [ld EXCEPT !.pc = "raised",
                             !.error = "TerminfoError: bad magic"]
             ELSE [ld EXCEPT !.pc = "strings", !.idx = 1, !.k = 0,
                             !.string = << >>, !.strings = << >>]
    /\ LoadOnly

(* Lines 213-228: one turn of the inner loop, or its end.  A slice at or   *)
(* after the end of the file is b'', which is not the NUL, so the loop     *)
(* goes on.                                                                *)
LoadStringChar ==
    /\ ld.pc = "strings"
    /\ ld.idx <= Len(ld.data.offsets)
    /\ LET offset == ld.data.offsets[ld.idx]
           pos == offset + ld.k
           char == IF pos < Len(ld.data.table)
                   THEN << ld.data.table[pos + 1] >> ELSE << >>
       IN  IF offset = ABSENT \/ char = << NUL >>
           THEN ld' = [ld EXCEPT !.strings = Append(@, ld.string),
                                 !.string = << >>, !.k = 0, !.idx = @ + 1]
           ELSE /\ char = << >> => ld.pastEnd < MaxPastEnd
                /\ ld' = [ld EXCEPT !.string = @ \o char, !.k = @ + 1,
                                    !.pastEnd = IF char = << >> THEN @ + 1
                                                ELSE @]
    /\ LoadOnly

(* Lines 230-232.                                                          *)
LoadReturn ==
    /\ ld.pc = "strings"
    /\ ld.idx > Len(ld.data.offsets)
    /\ ld' = [ld EXCEPT !.pc = "returned"]
    /\ LoadOnly

NextLoad ==
    \/ LoadCall
    \/ LoadResolveName
    \/ LoadLocations
    \/ LoadProbe
    \/ LoadCheckFound
    \/ LoadOpen
    \/ LoadHeader
    \/ LoadStringChar
    \/ LoadReturn

SpecLoad == InitLoad /\ [][NextLoad]_vars

Given(v) == v # << >> /\ v[1] # ""

(* C13: the terminal name is the explicit argument when given, else TERM   *)
(* when set and not empty, else the fallback; the 'TERM unset' error       *)
(* happens only with no argument, no TERM and an empty fallback.           *)
C13_NameResolution ==
    ld.pc \notin {"new", "name"} =>
        LET unsetError == ld.error = "TerminfoError: TERM unset"
        IN  /\ unsetError <=>
                  (~Given(ld.arg) /\ ~Given(ld.TERM) /\ ld.fallback = "")
            /\ ~unsetError =>
                  ld.terminal_name =
                      IF Given(ld.arg) THEN ld.arg
                      ELSE IF Given(ld.TERM) THEN ld.TERM
                      ELSE << ld.fallback >>

Hits ==
    {j \in 1..Len(ld.terminfo_locations) :
        ld.terminfo_locations[j] \in ld.exists}

(* C14: when no searched directory has the entry, load_terminfo raises     *)
(* TerminfoError before it opens a file; when one has, the entry of the    *)
(* first such directory is the one loaded.                                 *)
C14_NotFoundIsTerminfoError ==
    /\ ld.pc \in {"open", "header", "strings", "returned"} =>
          /\ Hits # {}
          /\ ld.terminfo_path =
                << [dir |-> ld.terminfo_locations[
                               CHOOSE j \in Hits : \A h \in Hits : j <= h],
                    name |-> ld.terminal_name[1]] >>
    /\ (ld.pc = "raised" /\ ld.terminfo_locations # << >> /\ Hits = {}) =>
          ld.error = "TerminfoError: not found"

(* C15: a file whose string table is cut before a string's NUL, or whose   *)
(* string offset is past the end of the file, is rejected with a           *)
(* configuration error: once the loader has read at or after the end of    *)
(* the file it has raised TerminfoError.                                   *)
C15_TruncatedTableRejected ==
    ld.pastEnd > 0 => (ld.pc = "raised" /\ ld.error # "TypeError")


---------------------------------------------------------------------------
(* More claims about the decoder, checked under SpecDec.                   *)

(* The decoder fed p is in the middle of an escape sequence: p starts with *)
(* an introducer and no event has been yielded yet.                        *)
Collecting(p) ==
    /\ p # << >>
    /\ p[1] \in {ESC, CSI}
    /\ DecodeAll(p) = << >>

(* C18: when ESC or the single-byte CSI arrives while an escape sequence   *)
(* is being collected, the partial sequence is dropped and the events      *)
(* yielded are those of the stream that begins at that introducer.         *)
C18_RestartDecodesFromIntroducer ==
    Consumed =>
        \A n \in 2..Len(fed) :
            (fed[n] \in {ESC, CSI} /\ Collecting(SubSeq(fed, 1, n - 1))) =>
                events = DecodeAll(SubSeq(fed, n, Len(fed)))

(* unicodedata.category(c) begins with 'C' (for the code points below      *)
(* 0xAD these are the C0 controls, DEL and the C1 controls).               *)
CategoryC(c) == c \in 0..31 \/ c \in 127..159

EventOf(c) == IF CategoryC(c) THEN ControlKey(c) ELSE PrintableChar(c)

NoIntroducer(s) == \A i \in 1..Len(s) : s[i] \notin {ESC, CSI}

OnePerCodePoint ==
    (Consumed /\ NoIntroducer(fed)) =>
        /\ Len(events) = Len(fed)
        /\ \A i \in 1..Len(fed) : events[i] = EventOf(fed[i])

NoPrintableInsideSequence ==
    dec.pc # "top" =>
        \A i \in (Len(events) + 1)..Len(events') :
            events'[i].kind # "PrintableChar"

(* C19: a stream with neither ESC nor CSI yields one event per code point, *)
(* in order, ControlKey for category C and PrintableChar otherwise; and no *)
(* PrintableChar is yielded for a code point consumed inside an escape     *)
(* sequence.                                                               *)
C19_OneEventPerCodePoint ==
    []OnePerCodePoint /\ [][NoPrintableInsideSequence]_vars

C19_Witness ==
    /\ fed = << 65, DEL, 49 >>
    /\ Consumed
    /\ Len(events) = 3
    /\ events[2] = ControlKey(DEL)
    /\ events[3] = PrintableChar(49)


---------------------------------------------------------------------------
(* RichPassword (richinput.py:450-516).  read runs RichLine.read with      *)
(* _on_key_pressed wrapped around update_vterm as the callback; the reader *)
(* thread takes one action per call that touches the virtual cursor or the *)
(* terminal, and the thread of threading.Timer runs on_timer_elapsed in    *)
(* between.  pw.pc is where the reader stands, tm.pc where the timer       *)
(* thread stands, tm.armed whether a started timer has neither fired nor   *)
(* been cancelled.                                                         *)

STAR == 42

Stars(n) == Repeat(STAR, n)

StarsIn(out) == Cardinality({i \in 1..Len(out) : out[i] = Chr(STAR)})

KF1 == << ESC, LETTER_O, 80 >>

(* What is typed during one read: the password of six letters and the      *)
(* newline; two letters, a backspace, F1 twice, the left arrow, a letter   *)
(* and the newline.                                                        *)
SecretText == << 115, 101, 99, 114, 101, 116 >>

PwInputs ==
    { [i \in 1..7 |-> IF i <= 6 THEN << SecretText[i] >> ELSE << LF >>],
      << << 97 >>, << 98 >>, << DEL >>, KF1, KF1, << ESC, LETTER_O, 68 >>,
         << 99 >>, << LF >> >> }

(* A call of a VTerm method by either thread: the mirror, the terminal.    *)
PwEmit(r) ==
    /\ vterm' = r.v
    /\ SetTerm(TermApplyAll(Term, r.out))
    /\ stars' = stars + StarsIn(r.out)

PwQuiet == UNCHANGED << vterm, scr, pcol, stars >>

PwFrame ==
    UNCHANGED << lineOps, ioVars, decVars, yielded, anchor, outcome, entered,
                 tiVars, ld, vtCalls >>

(* Lines 458-464 and 366-388: read starts RichLine.read, which starts the  *)
(* iterator, get_rich_char and get_char.                                   *)
PwStart ==
    \E input \in PwInputs, prompt \in Prompts :
       /\ pw.pc = "new"
       /\ rl.pc = "new"
       /\ gcPc = "new"
       /\ pw' = [pw EXCEPT !.pc = "idle", !.input = input]
       /\ rl' = [pc |-> "waiting", mode |-> "read", prev_text |-> iline.text,
                 prev_idx |-> iline.idx, prompt |-> prompt]
       /\ vterm' = vt_move_cursor_forward(vterm, Len(prompt), TRUE).v
       /\ gcPc' = "live"
       /\ entered' = << [attrs |-> ttyAttrs, flags |-> stdinFlags] >>
       /\ SetTty(nonblocking_input_enter(Tty))
       /\ SetTerm(TermApplyAll(Term, Text(prompt)))
       /\ UNCHANGED << lineVars, stdin, stdinEof, gcBuf, eofReads, typed, fed,
                       decVars, yielded, cbArgs, anchor, outcome, tiVars, ld,
                       tm, replace_event, stars, vtCalls >>

(* The next key is typed while the reader waits for input.                 *)
PwKeyPress ==
    /\ pw.pc = "idle"
    /\ rl.pc = "waiting"
    /\ WantsChar
    /\ gcBuf = << >>
    /\ stdin = << >>
    /\ typed < Len(pw.input)
    /\ typed' = typed + 1
    /\ stdin' = pw.input[typed + 1]
    /\ UNCHANGED << libVars, lineVars, ttyAttrs, stdinFlags, guards, stdinEof,
                    gcBuf, gcPc, eofReads, fed, decVars, editVars >>

(* Line 400 with the callbacks of lines 376, 460 and 462: the arguments    *)
(* are taken and _on_key_pressed is entered.                               *)
PwCall ==
    /\ pw.pc = "idle"
    /\ Resumed
    /\ pw' = [pw EXCEPT !.pc = "wait", !.key_event = yielded[1].event,
                        !.previous = rl.prev_text, !.current = iline.text,
                        !.prev_idx = rl.prev_idx, !.next_idx = iline.idx]
    /\ cbArgs' = << [event |-> yielded[1].event, prev_text |-> rl.prev_text,
                     text |-> iline.text, prev_idx |-> rl.prev_idx,
                     idx |-> iline.idx] >>
    /\ PwQuiet
    /\ PwFrame
    /\ UNCHANGED << iline, rl, tm, replace_event >>

(* Line 471: replace_event.wait() returns when the event is set.           *)
PwWait ==
    /\ pw.pc = "wait"
    /\ replace_event
    /\ pw' = [pw EXCEPT !.pc = "cancel"]
    /\ PwQuiet
    /\ PwFrame
    /\ UNCHANGED << iline, rl, cbArgs, tm, replace_event >>

(* The redraw that follows _on_key_pressed: update_vterm, lines 408-428.   *)
RedrawOrCursorKey(previous, current) ==
    IF previous # current THEN "redraw_move" ELSE "cursor_key"

(* Lines 472-479 and 488-489: the timer is cancelled, which stops it only  *)
(* if it has not fired; then F1 toggles clear_text, or the character       *)
(* before the cursor is to be replaced.                                    *)
PwCancel ==
    /\ pw.pc = "cancel"
    /\ tm' = IF pw.timer THEN [tm EXCEPT !.armed = FALSE] ELSE tm
    /\ pw' = IF pw.key_event.kind = "EscapeSequence"
                  /\ pw.key_event.capname = "kf1"
             THEN [pw EXCEPT !.pc = "f1_back", !.clear_text = ~pw.clear_text,
                             !.current = IF pw.clear_text
                                         THEN Stars(Len(pw.current))
                                         ELSE pw.current]
             ELSE IF ~pw.clear_text /\ ~is_char_backspace(pw.key_event.value)
                     /\ pw.prev_idx # 0
             THEN [pw EXCEPT !.pc = "replace_back"]
             ELSE [pw EXCEPT !.pc = "mask"]
    /\ PwQuiet
    /\ PwFrame
    /\ UNCHANGED << iline, rl, cbArgs, replace_event >>

(* Line 481.                                                               *)
PwF1Back ==
    /\ pw.pc = "f1_back"
    /\ PwEmit(vt_move_cursor_backward(vterm, pw.prev_idx, FALSE))
    /\ pw' = [pw EXCEPT !.pc = "f1_write"]
    /\ PwFrame
    /\ UNCHANGED << iline, rl, cbArgs, tm, replace_event >>

(* Line 482.                                                               *)
PwF1Write ==
    /\ pw.pc = "f1_write"
    /\ PwEmit(vt_write(vterm, pw.current))
    /\ pw' = [pw EXCEPT !.pc = "f1_back2"]
    /\ PwFrame
    /\ UNCHANGED << iline, rl, cbArgs, tm, replace_event >>

(* Lines 483-486: the cursor is put back and update_vterm is called.       *)
PwF1Back2 ==
    /\ pw.pc = "f1_back2"
    /\ PwEmit(vt_move_cursor_backward(vterm, Len(pw.current) - pw.next_idx,
                                      FALSE))
    /\ pw' = [pw EXCEPT !.pc = RedrawOrCursorKey(pw.previous, pw.current)]
    /\ PwFrame
    /\ UNCHANGED << iline, rl, cbArgs, tm, replace_event >>

(* replace_previous_char, line 510, called by the reader.                  *)
PwReplaceBack ==
    /\ pw.pc = "replace_back"
    /\ PwEmit(vt_move_cursor_backward(vterm, 1, FALSE))
    /\ pw' = [pw EXCEPT !.pc = "replace_write"]
    /\ PwFrame
    /\ UNCHANGED << iline, rl, cbArgs, tm, replace_event >>

(* replace_previous_char, line 511.                                        *)
PwReplaceWrite ==
    /\ pw.pc = "replace_write"
    /\ PwEmit(vt_write(vterm, << STAR >>))
    /\ pw' = [pw EXCEPT !.pc = "mask"]
    /\ PwFrame
    /\ UNCHANGED << iline, rl, cbArgs, tm, replace_event >>

(* Lines 491-505: current is masked, all of it or all but the character    *)
(* just typed, in which case a new timer is started; update_vterm is       *)
(* called with the plain previous text and the masked current text.        *)
PwMask ==
    /\ pw.pc = "mask"
    /\ LET masks == ~pw.clear_text /\ pw.current # << >>
                    /\ pw.previous # pw.current
           grew == Len(pw.current) > Len(pw.previous)
           latest_char == SubSeq(pw.current, pw.prev_idx + 1,
                                 Min(pw.prev_idx + 1, Len(pw.current)))
           all == Stars(Len(pw.current))
           current == IF ~masks THEN pw.current
                      ELSE IF grew
                      THEN SliceTo(all, pw.prev_idx) \o latest_char
                           \o SliceFrom(all, pw.prev_idx + 1)
                      ELSE all
       IN  /\ pw' = [pw EXCEPT !.current = current,
                               !.timer = IF masks /\ grew THEN TRUE ELSE @,
                               !.pc = RedrawOrCursorKey(pw.previous, current)]
           /\ tm' = IF masks /\ grew THEN [tm EXCEPT !.armed = TRUE] ELSE tm
    /\ PwQuiet
    /\ PwFrame
    /\ UNCHANGED << iline, rl, cbArgs, replace_event >>

(* update_vterm, lines 411-417.                                            *)
PwRedrawMove ==
    /\ pw.pc = "redraw_move"
    /\ LET prefix == commonprefix(pw.previous, pw.current)
       IN  PwEmit(IF Len(prefix) < pw.prev_idx
                  THEN vt_move_cursor_backward(vterm, pw.prev_idx - Len(prefix),
                                               FALSE)
                  ELSE IF Len(prefix) > pw.prev_idx
                  THEN vt_move_cursor_forward(vterm, Len(prefix) - pw.prev_idx,
                                              FALSE)
                  ELSE [v |-> vterm, out |-> << >>])
    /\ pw' = [pw EXCEPT !.pc = "redraw_clear"]
    /\ PwFrame
    /\ UNCHANGED << iline, rl, cbArgs, tm, replace_event >>

(* update_vterm, line 420.                                                 *)
PwRedrawClear ==
    /\ pw.pc = "redraw_clear"
    /\ PwEmit([v |-> vterm, out |-> << Ctl("clr_eos") >>])
    /\ pw' = [pw EXCEPT !.pc = "redraw_write"]
    /\ PwFrame
    /\ UNCHANGED << iline, rl, cbArgs, tm, replace_event >>

(* update_vterm, line 423.                                                 *)
PwRedrawWrite ==
    /\ pw.pc = "redraw_write"
    /\ PwEmit(vt_write(vterm,
                       SliceFrom(pw.current,
                                 Len(commonprefix(pw.previous, pw.current)))))
    /\ pw' = [pw EXCEPT !.pc = "redraw_back"]
    /\ PwFrame
    /\ UNCHANGED << iline, rl, cbArgs, tm, replace_event >>

(* update_vterm, line 426.                                                 *)
PwRedrawBack ==
    /\ pw.pc = "redraw_back"
    /\ PwEmit(vt_move_cursor_backward(vterm, Len(pw.current) - pw.next_idx,
                                      FALSE))
    /\ pw' = [pw EXCEPT !.pc = "snapshot"]
    /\ PwFrame
    /\ UNCHANGED << iline, rl, cbArgs, tm, replace_event >>

(* update_vterm, lines 428-444, when the text did not change.              *)
PwCursorKey ==
    /\ pw.pc = "cursor_key"
    /\ LET u == IF pw.key_event.kind = "EscapeSequence"
                THEN CursorKey(pw.key_event, vterm, iline, pw.current,
                               pw.prev_idx)
                ELSE [line |-> iline, v |-> vterm, out |-> << >>]
       IN  /\ iline' = u.line
           /\ PwEmit([v |-> u.v, out |-> u.out])
    /\ pw' = [pw EXCEPT !.pc = "snapshot"]
    /\ PwFrame
    /\ UNCHANGED << rl, cbArgs, tm, replace_event >>

(* Lines 402-403: the callback has returned, the iterator renews its       *)
(* snapshot and asks for the next event.                                   *)
PwSnapshot ==
    /\ pw.pc = "snapshot"
    /\ pw' = [pw EXCEPT !.pc = "idle"]
    /\ rl' = [rl EXCEPT !.pc = "waiting", !.prev_text = iline.text,
                        !.prev_idx = iline.idx]
    /\ PwQuiet
    /\ PwFrame
    /\ UNCHANGED << iline, cbArgs, tm, replace_event >>

(* Lines 464-466 and 508-510: RichLine.read has returned the text; the     *)
(* character before the cursor is replaced once more.                      *)
PwFinalBack ==
    /\ pw.pc = "idle"
    /\ rl.pc = "done"
    /\ outcome.how = "returned"
    /\ IF iline.idx = 0
       THEN /\ pw' = [pw EXCEPT !.pc = "returned", !.result = outcome.text]
            /\ PwQuiet
       ELSE /\ pw' = [pw EXCEPT !.pc = "final_write", !.result = outcome.text]
            /\ PwEmit(vt_move_cursor_backward(vterm, 1, FALSE))
    /\ PwFrame
    /\ UNCHANGED << iline, rl, cbArgs, tm, replace_event >>

(* Lines 511 and 468: the star is written and read returns.                *)
PwFinalWrite ==
    /\ pw.pc = "final_write"
    /\ PwEmit(vt_write(vterm, << STAR >>))
    /\ pw' = [pw EXCEPT !.pc = "returned"]
    /\ PwFrame
    /\ UNCHANGED << iline, rl, cbArgs, tm, replace_event >>

(* The interval of the timer started at line 501 elapses before it is      *)
(* cancelled: its thread calls on_timer_elapsed.  The thread of an earlier *)
(* timer has ended long before.                                            *)
TimerFire ==
    /\ tm.armed
    /\ tm.pc = "none"
    /\ tm' = [armed |-> FALSE, pc |-> "clear"]
    /\ PwQuiet
    /\ PwFrame
    /\ UNCHANGED << iline, rl, cbArgs, pw, replace_event >>

(* Line 514.                                                               *)
TimerClear ==
    /\ tm.pc = "clear"
    /\ replace_event' = FALSE
    /\ tm' = [tm EXCEPT !.pc = "replace_back"]
    /\ PwQuiet
    /\ PwFrame
    /\ UNCHANGED << iline, rl, cbArgs, pw >>

(* Lines 515 and 508-510: replace_previous_char(self.iline.idx).           *)
TimerReplaceBack ==
    /\ tm.pc = "replace_back"
    /\ IF iline.idx = 0
       THEN /\ tm' = [tm EXCEPT !.pc = "set"]
            /\ PwQuiet
       ELSE /\ tm' = [tm EXCEPT !.pc = "replace_write"]
            /\ PwEmit(vt_move_cursor_backward(vterm, 1, FALSE))
    /\ PwFrame
    /\ UNCHANGED << iline, rl, cbArgs, pw, replace_event >>

(* Line 511.                                                               *)
TimerReplaceWrite ==
    /\ tm.pc = "replace_write"
    /\ PwEmit(vt_write(vterm, << STAR >>))
    /\ tm' = [tm EXCEPT !.pc = "set"]
    /\ PwFrame
    /\ UNCHANGED << iline, rl, cbArgs, pw, replace_event >>

(* Line 516; the timer thread ends.                                        *)
TimerSet ==
    /\ tm.pc = "set"
    /\ replace_event' = TRUE
    /\ tm' = [tm EXCEPT !.pc = "none"]
    /\ PwQuiet
    /\ PwFrame
    /\ UNCHANGED << iline, rl, cbArgs, pw >>

InitPw == Init

NextPw ==
    \/ PwStart
    \/ PwKeyPress
    \/ ReadInput
    \/ DecodeChar
    \/ IterStep
    \/ ReadBreak
    \/ PwCall
    \/ PwWait
    \/ PwCancel
    \/ PwF1Back
    \/ PwF1Write
    \/ PwF1Back2
    \/ PwReplaceBack
    \/ PwReplaceWrite
    \/ PwMask
    \/ PwRedrawMove
    \/ PwRedrawClear
    \/ PwRedrawWrite
    \/ PwRedrawBack
    \/ PwCursorKey
    \/ PwSnapshot
    \/ PwFinalBack
    \/ PwFinalWrite
    \/ TimerFire
    \/ TimerClear
    \/ TimerReplaceBack
    \/ TimerReplaceWrite
    \/ TimerSet

SpecPw == InitPw /\ [][NextPw]_vars

TypedSecret ==
    /\ Len(pw.input) = 7
    /\ \A i \in 1..6 : pw.input[i] = << SecretText[i] >>
    /\ pw.input[7] = << LF >>

(* C16: with clear_text never toggled and 's','e','c','r','e','t',         *)
(* newline typed, exactly six '*' have been written to the terminal when   *)
(* read returns, and it returns "secret".                                  *)
C16_SixStarsWritten ==
    (TypedSecret /\ pw.pc = "returned") =>
        /\ stars = 6
        /\ pw.result = SecretText

(* C17: the timer thread's replacement of the last character and the       *)
(* reader thread's handling of a keystroke never run at the same time:     *)
(* the timer thread is never between its cursor move and its write while   *)
(* the reader is between two of its own writes.                            *)
C17_TimerAndReaderExclusive ==
    ~(/\ tm.pc = "replace_write"
      /\ pw.pc \in {"replace_write", "redraw_write", "f1_write",
                    "final_write"})


---------------------------------------------------------------------------
(* VTerm on a narrow window (richinput.py:274-348): move_cursor_forward,   *)
(* move_cursor_backward and write are called directly, with their default  *)
(* update_idx_only, from every column of the first row.                    *)

VtWidth == 3         \* SpecVt: widest window
MaxVtSteps == 4      \* SpecVt: largest step count / longest text written
MaxVtCalls == 3      \* SpecVt: calls made on one VTerm

(* The state after construction with the cursor at column col of a window  *)
(* of the given width.                                                     *)
InitAt(col, width) ==
    /\ InitLib
    /\ iline = [text |-> << >>, idx |-> 0]
    /\ lineOps = << >>
    /\ ttyAttrs = {"ECHO", "ICANON", "ISIG"}
    /\ stdinFlags = {"O_RDWR"}
    /\ guards = << >>
    /\ stdin = << >>
    /\ stdinEof = FALSE
    /\ gcBuf = << >>
    /\ gcPc = "new"
    /\ eofReads = 0
    /\ dec = [pc |-> "top", seq |-> << >>]
    /\ pending = << >>
    /\ events = << >>
    /\ typed = 0
    /\ fed = << >>
    /\ rl = [pc |-> "new", mode |-> "none", prev_text |-> << >>, prev_idx |-> 0,
             prompt |-> << >>]
    /\ yielded = << >>
    /\ cbArgs = << >>
    /\ anchor = col
    /\ vterm = [x |-> col, y |-> 1, width |-> width]
    /\ scr = Repeat(32, col - 1)
    /\ pcol = col
    /\ outcome = [how |-> "none", by |-> "none", text |-> << >>]
    /\ entered = << >>

InitVt == \E width \in 2..VtWidth : \E col \in 1..width : InitAt(col, width)

VtCall(op, steps, before) == [op |-> op, steps |-> steps, before |-> before]

VtMore == Len(vtCalls) < MaxVtCalls

VtOnly ==
    UNCHANGED << lineVars, ioVars, decVars, rl, yielded, cbArgs, anchor,
                 outcome, entered, tiVars, ld, pwVars >>

VtDo(op, steps, r) ==
    /\ vterm' = r.v
    /\ SetTerm(TermApplyAll(Term, r.out))
    /\ vtCalls' = Append(vtCalls, VtCall(op, steps, vterm))
    /\ VtOnly

VtForward ==
    \E steps \in 0..MaxVtSteps :
       /\ VtMore
       /\ VtDo("move_cursor_forward", steps,
               vt_move_cursor_forward(vterm, steps, FALSE))

VtBackward ==
    \E steps \in 0..MaxVtSteps :
       /\ VtMore
       /\ VtDo("move_cursor_backward", steps,
               vt_move_cursor_backward(vterm, steps, FALSE))

VtWrite ==
    \E steps \in 0..MaxVtSteps :
       /\ VtMore
       /\ VtDo("write", steps, vt_write(vterm, Repeat(97, steps)))

NextVt ==
    \/ VtForward
    \/ VtBackward
    \/ VtWrite

SpecVt == InitVt /\ [][NextVt]_vars

(* The mirror as a row-major position.                                     *)
RowMajor(v) == v.y * v.width + (v.x - 1)

VtLast == vtCalls[Len(vtCalls)]
VtPrevious == vtCalls[Len(vtCalls) - 1]

(* C21: move_cursor_forward(s) and write of s characters move the mirror   *)
(* to row-major position +s (x' = ((x+s-1) mod w)+1, y' = y +              *)
(* floor((x+s-1)/w)), move_cursor_backward(s) to position -s; cursor_x     *)
(* stays within 1..width, and forward(s) followed by backward(s) restores  *)
(* (x, y).                                                                 *)
C21_MirrorMovesRowMajor ==
    /\ vterm.x \in 1..vterm.width
    /\ vtCalls # << >> =>
         LET b == VtLast.before
             s == VtLast.steps
         IN  IF VtLast.op = "move_cursor_backward"
             THEN RowMajor(vterm) = RowMajor(b) - s
             ELSE /\ vterm.x = ((b.x + s - 1) % b.width) + 1
                  /\ vterm.y = b.y + ((b.x + s - 1) \div b.width)
                  /\ RowMajor(vterm) = RowMajor(b) + s
    /\ (/\ Len(vtCalls) >= 2
        /\ VtPrevious.op = "move_cursor_forward"
        /\ VtLast.op = "move_cursor_backward"
        /\ VtPrevious.steps = VtLast.steps) =>
           /\ vterm.x = VtPrevious.before.x
           /\ vterm.y = VtPrevious.before.y

(* Forward across two wraps, then as far backward.                         *)
C21_Witness ==
    /\ Len(vtCalls) = 3
    /\ VtPrevious.op = "move_cursor_forward"
    /\ VtLast.op = "move_cursor_backward"
    /\ VtPrevious.steps = MaxVtSteps
    /\ VtLast.steps = MaxVtSteps
    /\ VtLast.before.y = VtPrevious.before.y + 2
    /\ vterm = VtPrevious.before

TermRow(t) == ((t.pcol - 1) \div t.cols) + 1

(* C22: on a terminal where cuf1 and cub1 move within the row, CR/LF go    *)
(* to column 1 of the next row and text wraps at the right margin, the     *)
(* mirror equals the terminal's cursor position after every                *)
(* move_cursor_forward, move_cursor_backward and write.                    *)
C22_MirrorEqualsPhysical ==
    /\ vterm.x = TermCol(Term)
    /\ vterm.y = TermRow(Term)



(* C24: when RichPassword.read has returned no masking timer is armed or   *)
(* running, so the timer thread writes nothing and moves no mirror after   *)
(* the return.                                                             *)
C24_NoTimerAfterReturn ==
    pw.pc = "returned" => (~tm.armed /\ tm.pc = "none")


---------------------------------------------------------------------------
(* RichLine on a narrow window: the actions of Spec, from a VTerm whose    *)
(* window is WrapWidth wide, so that the prompt and the text wrap.         *)

WrapWidth == 2       \* SpecWrap: window width

InitWrap == \E col \in 1..WrapWidth : InitAt(col, WrapWidth)

SpecWrap == InitWrap /\ [][Next]_vars

(* The cursor position at construction, as a mirror.                       *)
Anchor == [x |-> anchor, y |-> 1, width |-> vterm.width]

(* C25: with the default redraw and a fixed window width, once RichLine    *)
(* has finished handling an event the mirror's row-major position is the   *)
(* anchor position plus len(prompt) plus the buffer's insertion index.     *)
C25_MirrorAtInsertionPoint ==
    rl.pc = "waiting" =>
        RowMajor(vterm) = RowMajor(Anchor) + Len(rl.prompt) + iline.idx

(* Home pressed with the text wrapped onto the next row: the redraw goes   *)
(* back over the left margin.                                              *)
C25_Witness ==
    /\ rl.pc = "waiting"
    /\ cbArgs # << >>
    /\ is_capability_home(cbArgs[1].event)
    /\ cbArgs[1].prev_idx = 2
    /\ iline.idx = 0
    /\ anchor = 1
    /\ vterm.x = 1
    /\ vterm.y = 1


---------------------------------------------------------------------------
(* The window is resized (richinput.py:280-291).  VTerm.__init__ installs  *)
(* _update_size as the handler of SIGWINCH; Python runs a handler between  *)
(* two bytecodes of the main thread, wherever that thread stands.  The     *)
(* handler reads the new size, then asks the terminal for its cursor       *)
(* position (get_cursor_position, lines 221-233) and makes it the mirror.  *)
(* The terminal keeps its cells in order and its cursor on its cell; the   *)
(* report is the only input waiting when it is read; the guard that        *)
(* get_cursor_position enters and leaves puts the tty back as it found it. *)

NarrowWidth == 20    \* SpecWinch: the other window width

WinchWidths == {Width, NarrowWidth}

Winch ==
    \E width \in WinchWidths \ {vterm.width} :
       /\ stdin = << >>
       /\ vterm' = [x |-> ((pcol - 1) % width) + 1,
                    y |-> ((pcol - 1) \div width) + 1,
                    width |-> width]
       /\ UNCHANGED << libVars, lineVars, ioVars, decVars, rl, yielded, cbArgs,
                       anchor, scr, pcol, outcome, entered >>

NextWinch ==
    \/ Start
    \/ KeyPress
    \/ Hangup
    \/ ReadInput
    \/ ReadEof
    \/ SelectInterrupted
    \/ SelectFails
    \/ DecodeChar
    \/ IterStep
    \/ ReadBreak
    \/ IterAbandon
    \/ Callback
    \/ CallbackRaises
    \/ Winch

SpecWinch == Init /\ [][NextWinch]_vars

(* C23: the size and the mirror are re-read only at an event boundary,     *)
(* never after __iter__ has updated the buffer for an event and before     *)
(* the callback and the redraw of that event are done.                     *)
C23_ResizeOnlyAtEventBoundary ==
    [][vterm'.width # vterm.width => rl.pc # "yielded"]_vars

=============================================================================
